---- MODULE Spec2Model ----
(***************************************************************************)
(* Model of the schema builder of src/src/index.ts (@japan-d2/schema):     *)
(* createContext and its field builders, pick / omit / extend, the oneOf   *)
(* combinator and the validation adapter.                                  *)
(*                                                                         *)
(* JavaScript objects that the code shares by reference live in a heap:    *)
(* propObjs holds the `properties` objects, reqArrs the `required` arrays, *)
(* objs the schema objects (accumulators and combinators) a client holds.  *)
(* A JSON value is a TLA+ record; a reference is an index into the heap.   *)
(***************************************************************************)
EXTENDS Integers, Sequences, FiniteSets, TLC

VARIABLES
    propObjs,   \* heap of `properties` objects: name -> fragment
    reqArrs,    \* heap of `required` arrays: sequences of names
    objs,       \* the schema objects created so far (what the client holds)
    prov,       \* per object: the call that returned it (op, source, arguments)
    call,       \* the last invocation of the external validator
    docs        \* the documents toJSONSchema() returned that the client holds

vars == <<propObjs, reqArrs, objs, prov, call, docs>>

----------------------------------------------------------------------------
(* Bounds and input alphabets *)

MaxObjs == 3

MaxFieldObjs == 2

MaxReq == 3

MaxDocs == 1

Names == {"a", "b"}

\* JavaScript `undefined` (an absent argument, or a missing property value)
Undefined == [undefined |-> TRUE]

\* the `options` values a caller passes to a field builder
GenericOptionsSet ==
    { Undefined,
      [optional |-> TRUE],
      [nullable |-> TRUE, title |-> "t"],
      [optional |-> FALSE, nullable |-> FALSE, title |-> "t"],
      [optional |-> TRUE, nullable |-> TRUE] }

\* the smaller alphabet used where calls are chained
ChainOptionsSet ==
    { Undefined, [optional |-> TRUE, nullable |-> TRUE, title |-> "t"] }

\* raw (non-schema) item options of array(), and raw definitions of object()
RawItemOptions == { Undefined, [nullable |-> TRUE] }

RawDefinitions == { [title |-> "d"], [nullable |-> TRUE] }

\* the `options` values a caller passes to validate() and assertValid()
ValidatorOptionsSet ==
    { Undefined,
      [throwError |-> TRUE, nestedErrors |-> TRUE],
      [throwError |-> FALSE, nestedErrors |-> TRUE],
      [allowUnknownAttributes |-> TRUE, nestedErrors |-> FALSE] }

Instances == { "i1", "i2" }

\* the name lists passed to pick() and omit(); toString is never a field
NameLists ==
    { <<"a">>, <<"b">>, <<"a", "b">>, <<"b", "a">>, <<"toString">> }

\* members every object literal inherits from Object.prototype (one of them)
ObjectPrototype ==
    [ toString |-> [function |-> "Object.prototype.toString"] ]

----------------------------------------------------------------------------
(* JavaScript object helpers *)

\* { ...a, ...b }: own keys of both, b's value on a collision
Spread(a, b) ==
    [k \in (DOMAIN a) \cup (DOMAIN b) |-> IF k \in DOMAIN b THEN b[k] ELSE a[k]]

\* { ...o } where o may be undefined (spreading undefined copies nothing)
SpreadOf(o) == IF o = Undefined THEN <<>> ELSE o

\* o?.k used as a condition
Truthy(o, k) == o # Undefined /\ k \in DOMAIN o /\ o[k] = TRUE

\* o without the keys in ks (delete o.k)
Without(o, ks) == [k \in (DOMAIN o) \ ks |-> o[k]]

\* names.includes(r)
Includes(names, r) == \E i \in DOMAIN names : names[i] = r

\* (mutant) the filter keeps the included names whichever way it is asked
RECURSIVE Filter_included(_, _, _)
Filter_included(required, names, wanted) ==
    IF required = <<>> THEN <<>>
    ELSE (IF Includes(names, Head(required)) THEN <<Head(required)>> ELSE <<>>)
             \o Filter_included(Tail(required), names, wanted)

\* required.filter((r) => names.includes(r) = wanted)
RECURSIVE Filter(_, _, _)
Filter(required, names, wanted) ==
    IF required = <<>> THEN <<>>
    ELSE (IF Includes(names, Head(required)) = wanted THEN <<Head(required)>> ELSE <<>>)
             \o Filter(Tail(required), names, wanted)

\* the method table of the `definition` object of createContext
DefinitionMethods ==
    { "identical", "string", "number", "integer", "boolean", "null", "const",
      "enum", "array", "object", "omit", "pick", "extend", "toJSONSchema" }

\* the method table of the object _oneOf returns
OneOfMethods == { "toJSONSchema" }

----------------------------------------------------------------------------
(* createContext and its closures.  Every builder gets the heap (P, R) and  *)
(* `self`, the accumulator whose closure it is, and returns the new heap    *)
(* and the returned object.                                                 *)

\* createContext(properties, required): the two arguments are freshly
\* built objects; they are stored in the heap and captured by reference.
createContext(P, R, properties, required) ==
    [ P   |-> Append(P, properties),
      R   |-> Append(R, required),
      ret |-> [ methods |-> DefinitionMethods,
                schema  |-> [ type       |-> "object",
                              properties |-> Len(P) + 1,
                              required   |-> Len(R) + 1 ] ] ]

\* (mutant) the null alternative is left out of the wrapper
orNull_noNull(schema, nullable) ==
    IF ~nullable THEN schema
    ELSE [oneOf |-> <<schema>>]

orNull(schema, nullable) ==
    IF ~nullable THEN schema
    ELSE [oneOf |-> <<schema, [type |-> "null"]>>]

\* (mutant) only `optional` is removed
extractOptional_keepNullable(options) ==
    LET opts == SpreadOf(options)
    IN  IF "optional" \in DOMAIN opts THEN Without(opts, {"optional"}) ELSE opts

extractOptional(options) ==
    LET opts == SpreadOf(options)
        o1   == IF "optional" \in DOMAIN opts THEN Without(opts, {"optional"}) ELSE opts
        o2   == IF "nullable" \in DOMAIN o1 THEN Without(o1, {"nullable"}) ELSE o1
    IN  o2

\* options?.nullable ?? false
NullableOf(options) == Truthy(options, "nullable")

\* (mutant) the name is appended only when it is not yet in `required`
RequiredWith_dedupe(required, name, options) ==
    required \o (IF Truthy(options, "optional") \/ Includes(required, name)
                 THEN <<>> ELSE <<name>>)

\* [...required, ...(options?.optional ? [] : [name])]
RequiredWith(required, name, options) ==
    required \o (IF Truthy(options, "optional") THEN <<>> ELSE <<name>>)

\* options || {}
OrEmpty(options) == IF options = Undefined THEN <<>> ELSE options

\* (mutant) the field is written into the source's own objects, and the
\* source itself is returned
_string_inplace(P, R, self, name, options) ==
    [ P   |-> [P EXCEPT ![self.schema.properties] =
                  Spread(@, name :> orNull(Spread([type |-> "string"],
                                                  extractOptional(OrEmpty(options))),
                                           NullableOf(options)))],
      R   |-> [R EXCEPT ![self.schema.required] = RequiredWith(@, name, options)],
      ret |-> self ]

_string(P, R, self, name, options) ==
    createContext(P, R,
        Spread(P[self.schema.properties],
               name :> orNull(Spread([type |-> "string"], extractOptional(OrEmpty(options))),
                              NullableOf(options))),
        RequiredWith(R[self.schema.required], name, options))

_number(P, R, self, name, options) ==
    createContext(P, R,
        Spread(P[self.schema.properties],
               name :> orNull(Spread([type |-> "number"], extractOptional(OrEmpty(options))),
                              NullableOf(options))),
        RequiredWith(R[self.schema.required], name, options))

_integer(P, R, self, name, options) ==
    createContext(P, R,
        Spread(P[self.schema.properties],
               name :> orNull(Spread([type |-> "integer"], extractOptional(OrEmpty(options))),
                              NullableOf(options))),
        RequiredWith(R[self.schema.required], name, options))

_boolean(P, R, self, name, options) ==
    createContext(P, R,
        Spread(P[self.schema.properties],
               name :> orNull(Spread([type |-> "boolean"], extractOptional(OrEmpty(options))),
                              NullableOf(options))),
        RequiredWith(R[self.schema.required], name, options))

_null(P, R, self, name, options) ==
    createContext(P, R,
        Spread(P[self.schema.properties],
               name :> Spread([type |-> "null"], extractOptional(OrEmpty(options)))),
        RequiredWith(R[self.schema.required], name, options))

_const(P, R, self, name, value, options) ==
    createContext(P, R,
        Spread(P[self.schema.properties],
               name :> orNull(Spread([const |-> value], extractOptional(OrEmpty(options))),
                              NullableOf(options))),
        RequiredWith(R[self.schema.required], name, options))

_enum(P, R, self, name, type, values, options) ==
    createContext(P, R,
        Spread(P[self.schema.properties],
               name :> orNull(Spread([type |-> type, enum |-> values],
                                     extractOptional(OrEmpty(options))),
                              NullableOf(options))),
        RequiredWith(R[self.schema.required], name, options))

\* toJSONSchema() of a schema object o: the accumulator's `{ ...schema }` (a
\* shallow copy: the same `properties` and `required` references), or the
\* combinator's `{ oneOf: schemaList.map(s => s.toJSONSchema()) }`.
RECURSIVE toJSONSchema(_, _)
toJSONSchema(O, o) ==
    IF "schema" \in DOMAIN o
    THEN [k \in DOMAIN o.schema |-> o.schema[k]]
    ELSE [oneOf |-> [k \in DOMAIN o.schemaList |-> toJSONSchema(O, O[o.schemaList[k]])]]

\* options.toJSONSchema ? options.toJSONSchema() : options
\* A schema argument is a reference [obj |-> i] to a schema object.
SchemaOrRaw(O, options) ==
    IF "obj" \in DOMAIN options /\ "toJSONSchema" \in O[options.obj].methods
    THEN toJSONSchema(O, O[options.obj])
    ELSE options

_array(P, R, O, self, name, type, options, arrayOptions) ==
    LET opt  == IF options = Undefined THEN <<>> ELSE options            \* = {}
        aopt == IF arrayOptions = Undefined THEN <<>> ELSE arrayOptions  \* = {}
    IN  createContext(P, R,
            Spread(P[self.schema.properties],
                   name :> orNull(Spread([type  |-> "array",
                                          items |-> Spread([type |-> type], SchemaOrRaw(O, opt))],
                                         extractOptional(aopt)),
                                  NullableOf(aopt))),
            RequiredWith(R[self.schema.required], name, aopt))

\* (mutant) the wrapping is governed by objectOptions, as for the other kinds
_object_optionsNullable(P, R, O, self, name, options, objectOptions) ==
    createContext(P, R,
        Spread(P[self.schema.properties],
               name :> orNull(Spread(Spread([type |-> "object"], SchemaOrRaw(O, options)),
                                     extractOptional(objectOptions)),
                              NullableOf(objectOptions))),
        RequiredWith(R[self.schema.required], name, objectOptions))

_object(P, R, O, self, name, options, objectOptions) ==
    createContext(P, R,
        Spread(P[self.schema.properties],
               name :> orNull(Spread(Spread([type |-> "object"], SchemaOrRaw(O, options)),
                                     extractOptional(objectOptions)),
                              NullableOf(options))),
        RequiredWith(R[self.schema.required], name, objectOptions))

\* for (const name of names) delete p[name]
RECURSIVE DeleteAll(_, _)
DeleteAll(p, names) ==
    IF names = <<>> THEN p
    ELSE DeleteAll(Without(p, {Head(names)}), Tail(names))

\* (mutant) the properties are deleted but `required` is kept as it is
_omit_keepRequired(P, R, self, names) ==
    createContext(P, R,
        DeleteAll(P[self.schema.properties], names),
        R[self.schema.required])

_omit(P, R, self, names) ==
    createContext(P, R,
        DeleteAll(P[self.schema.properties], names),
        Filter(R[self.schema.required], names, FALSE))

\* properties[n]: an own key, else a member inherited from Object.prototype,
\* else undefined
Lookup(properties, n) ==
    IF n \in DOMAIN properties THEN properties[n]
    ELSE IF n \in DOMAIN ObjectPrototype THEN ObjectPrototype[n]
    ELSE Undefined

\* names.reduce((current, n) => ({ ...current, [n]: properties[n] }), current)
RECURSIVE PickReduce(_, _, _)
PickReduce(properties, names, current) ==
    IF names = <<>> THEN current
    ELSE PickReduce(properties, Tail(names),
                    Spread(current, Head(names) :> Lookup(properties, Head(names))))

\* (mutant) `required` is passed on unfiltered
_pick_keepRequired(P, R, self, names) ==
    createContext(P, R,
        PickReduce(P[self.schema.properties], names, <<>>),
        R[self.schema.required])

\* (mutant) `required` is built from the names, in the order they are passed
_pick_namesOrder(P, R, self, names) ==
    createContext(P, R,
        PickReduce(P[self.schema.properties], names, <<>>),
        Filter(names, R[self.schema.required], TRUE))

_pick(P, R, self, names) ==
    createContext(P, R,
        PickReduce(P[self.schema.properties], names, <<>>),
        Filter(R[self.schema.required], names, TRUE))

\* (mutant) this accumulator wins a collision and its required names come first
_extend_leftBiased(P, R, O, self, context) ==
    LET schema == toJSONSchema(O, context)
    IN  createContext(P, R,
            Spread(IF "properties" \in DOMAIN schema THEN P[schema.properties] ELSE <<>>,
                   P[self.schema.properties]),
            R[self.schema.required]
                \o (IF "required" \in DOMAIN schema THEN R[schema.required] ELSE <<>>))

_extend(P, R, O, self, context) ==
    LET schema == toJSONSchema(O, context)
    IN  createContext(P, R,
            Spread(P[self.schema.properties],
                   IF "properties" \in DOMAIN schema THEN P[schema.properties] ELSE <<>>),
            (IF "required" \in DOMAIN schema THEN R[schema.required] ELSE <<>>)
                \o R[self.schema.required])

identical(self) == self

\* defineSchema(): createContext() with the default arguments {} and []
defineSchema(P, R) == createContext(P, R, <<>>, <<>>)

\* (mutant) the branches are stored last first
_oneOf_reversed(schemaList) ==
    [ methods |-> OneOfMethods,
      schemaList |-> [k \in DOMAIN schemaList |-> schemaList[Len(schemaList) + 1 - k]] ]

\* combineSchema.oneOf(schemaList)
_oneOf(schemaList) ==
    [ methods |-> OneOfMethods, schemaList |-> schemaList ]

----------------------------------------------------------------------------
(* The external validator (package jsonschema): validate(instance, schema,  *)
(* options).  Whether the instance is valid is the validator's business;    *)
(* `valid` is its verdict.  With options.throwError it raises on failure.   *)

JSONSchema_validate(instance, schema, options, valid) ==
    IF ~valid /\ Truthy(options, "throwError")
    THEN [ raised |-> TRUE, error |-> "ValidationError" ]
    ELSE [ raised |-> FALSE, valid |-> valid ]

\* (mutant) { throwError: false, ...options }: the caller's toggle wins
validateOptions_callerWins(options) == Spread([throwError |-> FALSE], SpreadOf(options))

\* the options object the adapter builds: { ...options, throwError: false }
validateOptions(options) == Spread(SpreadOf(options), [throwError |-> FALSE])

\* { ...options, throwError: true }
assertValidOptions(options) == Spread(SpreadOf(options), [throwError |-> TRUE])

\* validate(input, schema, options): the validator call and `result.valid`
validate(O, input, schema, options, valid) ==
    LET passed == validateOptions(options)
        result == JSONSchema_validate(input, toJSONSchema(O, schema), passed, valid)
    IN  [ instance |-> input, schema |-> toJSONSchema(O, schema), options |-> passed,
          outcome |-> IF result.raised THEN result
                      ELSE [ raised |-> FALSE, returned |-> result.valid ] ]

\* (mutant) the validator's error is caught and the call returns normally
assertValid_swallows(O, input, schema, options, valid) ==
    [ instance |-> input, schema |-> toJSONSchema(O, schema),
      options |-> assertValidOptions(options),
      outcome |-> [ raised |-> FALSE ] ]

\* assertValid(input, schema, options): the validator call; returns nothing
assertValid(O, input, schema, options, valid) ==
    LET passed == assertValidOptions(options)
        result == JSONSchema_validate(input, toJSONSchema(O, schema), passed, valid)
    IN  [ instance |-> input, schema |-> toJSONSchema(O, schema), options |-> passed,
          outcome |-> IF result.raised THEN result ELSE [ raised |-> FALSE ] ]

----------------------------------------------------------------------------
(* Actions: one per operation of the API.  The client keeps every object   *)
(* it was returned (objs) and may call any operation on any of them.       *)

NoCall == [ fn |-> "none" ]

\* the call returned r.ret; p records the call
Returned(r, p) ==
    /\ propObjs' = r.P
    /\ reqArrs' = r.R
    /\ objs' = Append(objs, r.ret)
    /\ prov' = Append(prov, p)
    /\ UNCHANGED <<call, docs>>

Has(i, method) == i \in DOMAIN objs /\ method \in objs[i].methods

\* the schema arguments a client can pass: references to objects it holds
SchemaArgs == { [obj |-> j] : j \in DOMAIN objs }

DefineSchema ==
    /\ Returned(defineSchema(propObjs, reqArrs), [op |-> "defineSchema"])

String(i, name, options) ==
    /\ Has(i, "string")
    /\ Returned(_string(propObjs, reqArrs, objs[i], name, options),
                [op |-> "string", src |-> i, name |-> name, options |-> options])

Number(i, name, options) ==
    /\ Has(i, "number")
    /\ Returned(_number(propObjs, reqArrs, objs[i], name, options),
                [op |-> "number", src |-> i, name |-> name, options |-> options])

Integer(i, name, options) ==
    /\ Has(i, "integer")
    /\ Returned(_integer(propObjs, reqArrs, objs[i], name, options),
                [op |-> "integer", src |-> i, name |-> name, options |-> options])

Boolean(i, name, options) ==
    /\ Has(i, "boolean")
    /\ Returned(_boolean(propObjs, reqArrs, objs[i], name, options),
                [op |-> "boolean", src |-> i, name |-> name, options |-> options])

Null(i, name, options) ==
    /\ Has(i, "null")
    /\ Returned(_null(propObjs, reqArrs, objs[i], name, options),
                [op |-> "null", src |-> i, name |-> name, options |-> options])

Const(i, name, value, options) ==
    /\ Has(i, "const")
    /\ Returned(_const(propObjs, reqArrs, objs[i], name, value, options),
                [op |-> "const", src |-> i, name |-> name, value |-> value,
                 options |-> options])

Enum(i, name, type, values, options) ==
    /\ Has(i, "enum")
    /\ Returned(_enum(propObjs, reqArrs, objs[i], name, type, values, options),
                [op |-> "enum", src |-> i, name |-> name, type |-> type,
                 values |-> values, options |-> options])

Array(i, name, type, itemOptions, options) ==
    /\ Has(i, "array")
    /\ Returned(_array(propObjs, reqArrs, objs, objs[i], name, type, itemOptions, options),
                [op |-> "array", src |-> i, name |-> name, type |-> type,
                 definition |-> itemOptions, options |-> options])

Object(i, name, definition, options) ==
    /\ Has(i, "object")
    /\ Returned(_object(propObjs, reqArrs, objs, objs[i], name, definition, options),
                [op |-> "object", src |-> i, name |-> name,
                 definition |-> definition, options |-> options])

Omit(i, names) ==
    /\ Has(i, "omit")
    /\ Returned(_omit(propObjs, reqArrs, objs[i], names),
                [op |-> "omit", src |-> i, names |-> names])

Pick(i, names) ==
    /\ Has(i, "pick")
    /\ Returned(_pick(propObjs, reqArrs, objs[i], names),
                [op |-> "pick", src |-> i, names |-> names])

Extend(i, j) ==
    /\ Has(i, "extend")
    /\ Has(j, "toJSONSchema")
    /\ Returned(_extend(propObjs, reqArrs, objs, objs[i], objs[j]),
                [op |-> "extend", src |-> i, other |-> j])

Identical(i) ==
    /\ Has(i, "identical")
    /\ objs' = [objs EXCEPT ![i] = identical(objs[i])]
    /\ UNCHANGED <<propObjs, reqArrs, prov, call, docs>>

OneOf(schemaList) ==
    /\ \A k \in DOMAIN schemaList : Has(schemaList[k], "toJSONSchema")
    /\ objs' = Append(objs, _oneOf(schemaList))
    /\ prov' = Append(prov, [op |-> "oneOf", schemaList |-> schemaList])
    /\ UNCHANGED <<propObjs, reqArrs, call, docs>>

Validate(input, i, options, valid) ==
    /\ Has(i, "toJSONSchema")
    /\ call' = [ fn |-> "validate", target |-> i, given |-> options, verdict |-> valid,
                 made |-> validate(objs, input, objs[i], options, valid) ]
    /\ UNCHANGED <<propObjs, reqArrs, objs, prov, docs>>

AssertValid(input, i, options, valid) ==
    /\ Has(i, "toJSONSchema")
    /\ call' = [ fn |-> "assertValid", target |-> i, given |-> options, verdict |-> valid,
                 made |-> assertValid(objs, input, objs[i], options, valid) ]
    /\ UNCHANGED <<propObjs, reqArrs, objs, prov, docs>>

----------------------------------------------------------------------------
(* Spec: a client that starts from defineSchema() and chains calls, each   *)
(* on the object returned last; it keeps every object it was returned and  *)
(* may pass any of them as an argument.                                    *)

Init ==
    LET r == defineSchema(<<>>, <<>>)
    IN  /\ propObjs = r.P
        /\ reqArrs = r.R
        /\ objs = <<r.ret>>
        /\ prov = <<[op |-> "defineSchema"]>>
        /\ call = NoCall
        /\ docs = <<>>

\* the object returned last
Head_ == Len(objs)

\* lists of one or two schema objects for combineSchema.oneOf
SchemaLists ==
    { <<j>> : j \in DOMAIN objs } \cup { <<j, k>> : j \in DOMAIN objs, k \in DOMAIN objs }

\* the client stops calling once it holds `max` objects
Room(max) == Len(objs) < max

Next ==
    \/ Room(MaxObjs) /\ DefineSchema
    \/ \E name \in Names, options \in ChainOptionsSet :
          Room(MaxObjs) /\ String(Head_, name, options)
    \/ \E name \in Names, options \in ChainOptionsSet :
          Room(MaxObjs) /\ Number(Head_, name, options)
    \/ \E name \in Names, options \in ChainOptionsSet :
          Room(MaxObjs) /\ Integer(Head_, name, options)
    \/ \E name \in Names, options \in ChainOptionsSet :
          Room(MaxObjs) /\ Boolean(Head_, name, options)
    \/ \E name \in Names, options \in ChainOptionsSet :
          Room(MaxObjs) /\ Null(Head_, name, options)
    \/ \E name \in Names, options \in ChainOptionsSet :
          Room(MaxObjs) /\ Const(Head_, name, "v", options)
    \/ \E name \in Names, options \in ChainOptionsSet :
          Room(MaxObjs) /\ Enum(Head_, name, "string", <<"x", "y">>, options)
    \/ \E name \in Names, options \in ChainOptionsSet, d \in {Undefined} \cup SchemaArgs :
          Room(MaxObjs) /\ Array(Head_, name, "string", d, options)
    \/ \E name \in Names, options \in ChainOptionsSet, d \in {[title |-> "d"]} \cup SchemaArgs :
          Room(MaxObjs) /\ Object(Head_, name, d, options)
    \/ \E names \in NameLists : Room(MaxObjs) /\ Omit(Head_, names)
    \/ \E names \in NameLists : Room(MaxObjs) /\ Pick(Head_, names)
    \/ \E j \in DOMAIN objs : Room(MaxObjs) /\ Extend(Head_, j)
    \/ \E schemaList \in SchemaLists : Room(MaxObjs) /\ OneOf(schemaList)
    \/ Room(MaxObjs) /\ Identical(Head_)

Spec == Init /\ [][Next]_vars

----------------------------------------------------------------------------
(* SpecFields: one field builder call after another, with every kind of    *)
(* options value.                                                          *)

NextFields ==
    \/ \E name \in Names, options \in GenericOptionsSet :
          Room(MaxFieldObjs) /\ String(Head_, name, options)
    \/ \E name \in Names, options \in GenericOptionsSet :
          Room(MaxFieldObjs) /\ Number(Head_, name, options)
    \/ \E name \in Names, options \in GenericOptionsSet :
          Room(MaxFieldObjs) /\ Integer(Head_, name, options)
    \/ \E name \in Names, options \in GenericOptionsSet :
          Room(MaxFieldObjs) /\ Boolean(Head_, name, options)
    \/ \E name \in Names, options \in GenericOptionsSet :
          Room(MaxFieldObjs) /\ Null(Head_, name, options)
    \/ \E name \in Names, options \in GenericOptionsSet :
          Room(MaxFieldObjs) /\ Const(Head_, name, "v", options)
    \/ \E name \in Names, options \in GenericOptionsSet :
          Room(MaxFieldObjs) /\ Enum(Head_, name, "string", <<"x", "y">>, options)
    \/ \E name \in Names, options \in GenericOptionsSet, d \in RawItemOptions \cup SchemaArgs :
          Room(MaxFieldObjs) /\ Array(Head_, name, "string", d, options)
    \/ \E name \in Names, options \in GenericOptionsSet, d \in RawDefinitions \cup SchemaArgs :
          Room(MaxFieldObjs) /\ Object(Head_, name, d, options)

SpecFields == Init /\ [][NextFields]_vars

----------------------------------------------------------------------------
(* SpecOps: pick, omit, extend and identical on accumulators drawn from a   *)
(* bounded set.  Every drawn accumulator is one a client can build: any     *)
(* `properties` map with any `required` sequence over its keys results      *)
(* from field builder calls (one non-optional call per entry of `required`, *)
(* in order, then an optional call for each remaining key), and an          *)
(* undefined fragment results from picking an absent name.                  *)

SampleFragments ==
    { [type |-> "string"],
      [oneOf |-> <<[type |-> "number"], [type |-> "null"]>>] }

SampleProps == UNION { [D -> SampleFragments] : D \in SUBSET Names }

SampleRequired(D) == UNION { [1..n -> D] : n \in 0..MaxReq }

SampleAccs ==
    UNION { { [properties |-> p, required |-> r] : r \in SampleRequired(DOMAIN p) } :
            p \in SampleProps }

\* the second accumulator of a drawn pair: its fragments differ from the first's
SecondAccs ==
    { [properties |-> ("a" :> [type |-> "integer"]), required |-> <<"a">>],
      [properties |-> ("a" :> [type |-> "integer"] @@ "b" :> Undefined),
       required |-> <<"a", "a">>],
      [properties |-> ("b" :> [type |-> "boolean"]), required |-> <<>>],
      [properties |-> <<>>, required |-> <<>>] }

Given == [op |-> "given"]

InitOps ==
    /\ call = NoCall
    /\ docs = <<>>
    /\ \E a \in SampleAccs :
          LET ra == createContext(<<>>, <<>>, a.properties, a.required)
          IN  \/ /\ propObjs = ra.P
                 /\ reqArrs = ra.R
                 /\ objs = <<ra.ret>>
                 /\ prov = <<Given>>
              \/ \E b \in SecondAccs :
                    LET rb == createContext(ra.P, ra.R, b.properties, b.required)
                    IN  /\ propObjs = rb.P
                        /\ reqArrs = rb.R
                        /\ objs = <<ra.ret, rb.ret>>
                        /\ prov = <<Given, Given>>
              \/ /\ propObjs = ra.P
                 /\ reqArrs = ra.R
                 /\ objs = <<ra.ret, _oneOf(<<1>>)>>
                 /\ prov = <<Given, [op |-> "oneOf", schemaList |-> <<1>>]>>

NextOps ==
    \/ \E i \in DOMAIN objs, names \in NameLists : Room(MaxObjs) /\ Omit(i, names)
    \/ \E i \in DOMAIN objs, names \in NameLists : Room(MaxObjs) /\ Pick(i, names)
    \/ \E i \in DOMAIN objs, j \in DOMAIN objs : Room(MaxObjs) /\ Extend(i, j)
    \/ \E i \in DOMAIN objs : Room(MaxObjs) /\ Identical(i)

SpecOps == InitOps /\ [][NextOps]_vars

----------------------------------------------------------------------------
(* SpecValidate: validate and assertValid on the drawn schemas, with every  *)
(* verdict of the external validator.                                       *)

NextValidate ==
    \/ \E input \in Instances, i \in DOMAIN objs, options \in ValidatorOptionsSet,
          valid \in BOOLEAN : Validate(input, i, options, valid)
    \/ \E input \in Instances, i \in DOMAIN objs, options \in ValidatorOptionsSet,
          valid \in BOOLEAN : AssertValid(input, i, options, valid)

SpecValidate == InitOps /\ [][NextValidate]_vars

----------------------------------------------------------------------------
(* Reading documents.  A document returned by toJSONSchema() refers to the  *)
(* `properties` and `required` objects of the heap; Resolve follows the     *)
(* references, giving the content a reader of the document sees.            *)

RECURSIVE Resolve(_, _, _)
Resolve(P, R, v) ==
    [k \in DOMAIN v |->
        CASE k = "properties" -> [n \in DOMAIN P[v[k]] |-> Resolve(P, R, P[v[k]][n])]
          [] k = "required"   -> R[v[k]]
          [] k = "oneOf"      -> [j \in DOMAIN v[k] |-> Resolve(P, R, v[k][j])]
          [] k = "items"      -> Resolve(P, R, v[k])
          [] OTHER            -> v[k]]

\* what objs[i].toJSONSchema() shows in the heap (P, R) with the objects O
Doc(P, R, O, i) == Resolve(P, R, toJSONSchema(O, O[i]))

IsAccumulator(i) == i \in DOMAIN objs /\ "schema" \in DOMAIN objs[i]

\* the `properties` map and `required` sequence of accumulator i, as stored
PropsOf(i) == propObjs[objs[i].schema.properties]

ReqOf(i) == reqArrs[objs[i].schema.required]

FieldOps ==
    { "string", "number", "integer", "boolean", "null", "const", "enum", "array", "object" }

BuilderOps == FieldOps \cup { "pick", "omit", "extend" }

\* the call that returned object i said optional: true / nullable: true
CalledOptional(i) ==
    /\ prov[i].options # Undefined
    /\ "optional" \in DOMAIN prov[i].options
    /\ prov[i].options.optional

CalledNullable(i) ==
    /\ prov[i].options # Undefined
    /\ "nullable" \in DOMAIN prov[i].options
    /\ prov[i].options.nullable

----------------------------------------------------------------------------
(* SpecDocs: a client that chains field builder calls from defineSchema(), *)
(* asks an object for its document and then writes to the document it was  *)
(* returned.  The document is the object `{ ...schema }`: its own top-level *)
(* keys, with the accumulator's `properties` object and `required` array   *)
(* as the values of two of them.                                           *)

\* doc = objs[i].toJSONSchema(); `content` is what the document shows when
\* it is returned, `at` the number of objects that exist then
ToJSONSchema(i) ==
    /\ Has(i, "toJSONSchema")
    /\ docs' = Append(docs, [ of      |-> i,
                              at      |-> Len(objs),
                              doc     |-> toJSONSchema(objs, objs[i]),
                              content |-> Doc(propObjs, reqArrs, objs, i) ])
    /\ UNCHANGED <<propObjs, reqArrs, objs, prov, call>>

\* doc[key] = value
AssignKey(d, key, value) ==
    /\ d \in DOMAIN docs
    /\ docs' = [docs EXCEPT ![d].doc = Spread(@, key :> value)]
    /\ UNCHANGED <<propObjs, reqArrs, objs, prov, call>>

\* doc.properties[name] = fragment
AddProperty(d, name, fragment) ==
    /\ d \in DOMAIN docs
    /\ "properties" \in DOMAIN docs[d].doc
    /\ propObjs' = [propObjs EXCEPT ![docs[d].doc.properties] = Spread(@, name :> fragment)]
    /\ UNCHANGED <<reqArrs, objs, prov, call, docs>>

\* delete doc.properties[name]
DeleteProperty(d, name) ==
    /\ d \in DOMAIN docs
    /\ "properties" \in DOMAIN docs[d].doc
    /\ propObjs' = [propObjs EXCEPT ![docs[d].doc.properties] = Without(@, {name})]
    /\ UNCHANGED <<reqArrs, objs, prov, call, docs>>

\* doc.required.push(name)
PushRequired(d, name) ==
    /\ d \in DOMAIN docs
    /\ "required" \in DOMAIN docs[d].doc
    /\ Len(reqArrs[docs[d].doc.required]) < MaxReq
    /\ reqArrs' = [reqArrs EXCEPT ![docs[d].doc.required] = Append(@, name)]
    /\ UNCHANGED <<propObjs, objs, prov, call, docs>>

\* the keys and the names the client writes
WrittenKeys == { "title", "type" }

WrittenNames == { "a", "x" }

NextDocs ==
    \/ \E name \in Names, options \in ChainOptionsSet :
          Room(MaxFieldObjs) /\ String(Head_, name, options)
    \/ \E i \in DOMAIN objs : Len(docs) < MaxDocs /\ ToJSONSchema(i)
    \/ \E d \in DOMAIN docs, key \in WrittenKeys : AssignKey(d, key, "m")
    \/ \E d \in DOMAIN docs, name \in WrittenNames :
          AddProperty(d, name, [type |-> "boolean"])
    \/ \E d \in DOMAIN docs, name \in WrittenNames : DeleteProperty(d, name)
    \/ \E d \in DOMAIN docs, name \in WrittenNames : PushRequired(d, name)

SpecDocs == Init /\ [][NextDocs]_vars

----------------------------------------------------------------------------
(* C1: every builder / pick / omit / extend call returns a new accumulator  *)
(* (its own `properties` and `required` objects) and leaves every existing  *)
(* object as it was: in each step, toJSONSchema() of every object created   *)
(* before shows the same properties map and the same required sequence      *)
(* after the step as before it, whatever is done later to the result.       *)

C1_Step ==
    /\ \A i \in DOMAIN objs :
          /\ i \in DOMAIN objs'
          /\ Doc(propObjs', reqArrs', objs', i) = Doc(propObjs, reqArrs, objs, i)
    /\ \A n \in (DOMAIN objs') \ (DOMAIN objs) :
          prov'[n].op \in BuilderOps =>
             /\ "schema" \in DOMAIN objs'[n]
             /\ \A i \in DOMAIN objs :
                   "schema" \in DOMAIN objs[i] =>
                      /\ objs'[n].schema.properties # objs[i].schema.properties
                      /\ objs'[n].schema.required # objs[i].schema.required

C1_SourceUnchanged == [][C1_Step]_vars

\* a source, the accumulator a call on it returned, and the accumulator a
\* further call on that one returned, all three showing different documents
C1_Witness ==
    \E i, j, k \in DOMAIN objs :
        /\ prov[j].op \in BuilderOps /\ prov[j].src = i
        /\ prov[k].op \in BuilderOps /\ prov[k].src = j
        /\ Doc(propObjs, reqArrs, objs, i) # Doc(propObjs, reqArrs, objs, j)
        /\ Doc(propObjs, reqArrs, objs, j) # Doc(propObjs, reqArrs, objs, k)
        /\ Doc(propObjs, reqArrs, objs, i) # Doc(propObjs, reqArrs, objs, k)

----------------------------------------------------------------------------
(* C2: for a chain of field builder calls from defineSchema(), the property *)
(* keys are exactly the names added, and `required` is the sequence of the  *)
(* names of the calls made without optional = true, in call order (a name   *)
(* added twice without it is there twice).                                  *)

\* object i was built from defineSchema() by field builder calls only
RECURSIVE IsFieldChain(_)
IsFieldChain(i) ==
    \/ prov[i].op = "defineSchema"
    \/ prov[i].op \in FieldOps /\ IsFieldChain(prov[i].src)

\* the calls of the chain, oldest first: the object each returned
RECURSIVE ChainCalls(_)
ChainCalls(i) ==
    IF prov[i].op = "defineSchema" THEN <<>>
    ELSE Append(ChainCalls(prov[i].src), i)

RECURSIVE ExpectedRequired(_)
ExpectedRequired(calls) ==
    IF calls = <<>> THEN <<>>
    ELSE LET c == calls[Len(calls)]
         IN  ExpectedRequired(SubSeq(calls, 1, Len(calls) - 1))
                \o (IF CalledOptional(c) THEN <<>> ELSE <<prov[c].name>>)

C2_FieldsAndRequired ==
    \A i \in DOMAIN objs :
        IsFieldChain(i) =>
            LET calls == ChainCalls(i)
            IN  /\ DOMAIN PropsOf(i) = { prov[calls[k]].name : k \in DOMAIN calls }
                /\ ReqOf(i) = ExpectedRequired(calls)

\* a chain that adds the same name twice, once optional and once not
C2_Witness ==
    \E i \in DOMAIN objs :
        /\ IsFieldChain(i)
        /\ prov[i].op \in FieldOps
        /\ prov[prov[i].src].op \in FieldOps
        /\ prov[i].name = prov[prov[i].src].name
        /\ CalledOptional(i) # CalledOptional(prov[i].src)

----------------------------------------------------------------------------
(* C3: for string, number, integer, boolean, const, enum and array the      *)
(* stored fragment is {oneOf: [F, {type: 'null'}]} exactly when the         *)
(* governing options say nullable: true, and F otherwise; F is the kind's   *)
(* base fragment with every option but `optional` and `nullable` copied in, *)
(* so neither is a key of F.  A null field is F, never wrapped.             *)

WrappedOps == { "string", "number", "integer", "boolean", "const", "enum", "array" }

\* the options of the call that returned i, without optional and nullable
PassedOptions(i) ==
    LET o == IF prov[i].options = Undefined THEN <<>> ELSE prov[i].options
    IN  [k \in (DOMAIN o) \ {"optional", "nullable"} |-> o[k]]

\* the items of an array field: {type, ...itemOptions}, a schema argument
\* contributing its document
ExpectedItems(i) ==
    LET d == prov[i].definition
        c == IF d = Undefined THEN <<>>
             ELSE IF "obj" \in DOMAIN d THEN toJSONSchema(objs, objs[d.obj])
             ELSE d
    IN  [k \in {"type"} \cup DOMAIN c |-> IF k \in DOMAIN c THEN c[k] ELSE prov[i].type]

BaseFragment(i) ==
    CASE prov[i].op \in {"string", "number", "integer", "boolean", "null"} ->
            [type |-> prov[i].op]
      [] prov[i].op = "const" -> [const |-> prov[i].value]
      [] prov[i].op = "enum"  -> [type |-> prov[i].type, enum |-> prov[i].values]
      [] prov[i].op = "array" -> [type |-> "array", items |-> ExpectedItems(i)]

ExpectedF(i) ==
    LET base == BaseFragment(i)
        opts == PassedOptions(i)
    IN  [k \in (DOMAIN base) \cup (DOMAIN opts) |->
            IF k \in DOMAIN opts THEN opts[k] ELSE base[k]]

\* the fragment stored by the call that returned i
StoredFragment(i) == PropsOf(i)[prov[i].name]

C3_NullableWrapping ==
    \A i \in DOMAIN objs :
        /\ prov[i].op \in WrappedOps =>
              /\ CalledNullable(i) =>
                    StoredFragment(i) = [oneOf |-> <<ExpectedF(i), [type |-> "null"]>>]
              /\ ~CalledNullable(i) => StoredFragment(i) = ExpectedF(i)
              /\ "optional" \notin DOMAIN ExpectedF(i)
              /\ "nullable" \notin DOMAIN ExpectedF(i)
        /\ prov[i].op = "null" =>
              /\ StoredFragment(i) = ExpectedF(i)
              /\ "oneOf" \notin DOMAIN StoredFragment(i)
              /\ "nullable" \notin DOMAIN StoredFragment(i)

\* a field added with nullable: true together with optional and another
\* option, stored as the two-element wrapper
C3_Witness ==
    \E i \in DOMAIN objs :
        /\ prov[i].op \in WrappedOps
        /\ CalledNullable(i)
        /\ "title" \in DOMAIN prov[i].options
        /\ DOMAIN StoredFragment(i) = {"oneOf"}
        /\ Len(StoredFragment(i).oneOf) = 2

----------------------------------------------------------------------------
(* C4 as claimed: `type` is at the schema root with value 'object' and at   *)
(* the top level of every field fragment in `properties`.                   *)

C4_TypeEverywhere ==
    \A i \in DOMAIN objs :
        IsAccumulator(i) =>
            /\ toJSONSchema(objs, objs[i]).type = "object"
            /\ \A n \in DOMAIN PropsOf(i) : "type" \in DOMAIN PropsOf(i)[n]

(* C4 amended: `type` is at the schema root with value 'object'.  A field   *)
(* fragment has `type` at its top level unless it is a nullable wrapper     *)
(* {oneOf: [F, {type: 'null'}]} (whose only key is oneOf, and where F is    *)
(* the unwrapped fragment), a const fragment {const: value, ...options},    *)
(* or the value stored by picking an absent name (undefined, or the member  *)
(* of Object.prototype that has that name).  The field a call adds has      *)
(* `type` at its top level exactly when the call is not for a const field   *)
(* and is not nullable.                                                     *)

\* what properties[n] gives for a name that is not a key of properties
AbsentValues == { Undefined } \cup { ObjectPrototype[n] : n \in DOMAIN ObjectPrototype }

IsWrapper(f) == "oneOf" \in DOMAIN f /\ "type" \notin DOMAIN f

\* the nullable flag that governs the wrapping of the field call i added
GoverningNullable(i) ==
    IF prov[i].op = "object"
    THEN "nullable" \in DOMAIN prov[i].definition /\ prov[i].definition.nullable
    ELSE prov[i].op # "null" /\ CalledNullable(i)

C4_TypeWhereUnwrapped ==
    \A i \in DOMAIN objs :
        IsAccumulator(i) =>
            /\ toJSONSchema(objs, objs[i]).type = "object"
            /\ \A n \in DOMAIN PropsOf(i) :
                  LET f == PropsOf(i)[n]
                  IN  \/ "type" \in DOMAIN f
                      \/ f \in AbsentValues
                      \/ "const" \in DOMAIN f /\ "oneOf" \notin DOMAIN f
                      \/ /\ DOMAIN f = {"oneOf"}
                         /\ Len(f.oneOf) = 2
                         /\ f.oneOf[2] = [type |-> "null"]
                         /\ "type" \in DOMAIN f.oneOf[1] \/ "const" \in DOMAIN f.oneOf[1]
            /\ prov[i].op \in FieldOps =>
                  ("type" \in DOMAIN StoredFragment(i)
                      <=> (prov[i].op # "const" /\ ~GoverningNullable(i)))

\* an accumulator holding a nullable field and a const field, neither with
\* a top-level `type`
C4_Witness ==
    \E i \in DOMAIN objs :
        /\ IsAccumulator(i)
        /\ \E n, m \in DOMAIN PropsOf(i) :
              /\ IsWrapper(PropsOf(i)[n])
              /\ "const" \in DOMAIN PropsOf(i)[m]
              /\ "type" \notin DOMAIN PropsOf(i)[m]

----------------------------------------------------------------------------
(* C5: S.pick(n1..nk) has as property keys exactly {n1..nk}, each mapped to *)
(* S's fragment for that name, and as `required` the entries of S's         *)
(* required sequence that occur among the names, in S's order, whatever     *)
(* the order of the names.                                                  *)

NameSet(names) == { names[k] : k \in DOMAIN names }

\* the entries of `required` that are (in = TRUE) or are not in the set
Restricted(required, set, in) ==
    SelectSeq(required, LAMBDA r : (r \in set) = in)

C5_Pick ==
    \A q \in DOMAIN objs :
        prov[q].op = "pick" =>
            LET S     == prov[q].src
                names == NameSet(prov[q].names)
            IN  /\ IsAccumulator(q)
                /\ DOMAIN PropsOf(q) = names
                /\ \A n \in names \cap DOMAIN PropsOf(S) :
                      PropsOf(q)[n] = PropsOf(S)[n]
                /\ ReqOf(q) = Restricted(ReqOf(S), names, TRUE)

\* pick('b', 'a') on a schema that requires a before b: the result requires
\* a before b
C5_Witness ==
    \E q \in DOMAIN objs :
        /\ prov[q].op = "pick"
        /\ prov[q].names = <<"b", "a">>
        /\ ReqOf(prov[q].src) = <<"a", "b", "a">>
        /\ ReqOf(q) = <<"a", "b", "a">>
        /\ PropsOf(q)["a"] # PropsOf(q)["b"]

----------------------------------------------------------------------------
(* C6: S.omit(n1..nk) has as property keys keys(S) minus {n1..nk}, the      *)
(* remaining fragments unchanged, and as `required` S's required sequence   *)
(* without any occurrence of a name ni, the rest in S's order.              *)

C6_Omit ==
    \A q \in DOMAIN objs :
        prov[q].op = "omit" =>
            LET S     == prov[q].src
                names == NameSet(prov[q].names)
            IN  /\ IsAccumulator(q)
                /\ DOMAIN PropsOf(q) = (DOMAIN PropsOf(S)) \ names
                /\ \A n \in DOMAIN PropsOf(q) : PropsOf(q)[n] = PropsOf(S)[n]
                /\ ReqOf(q) = Restricted(ReqOf(S), names, FALSE)

\* omit('a') on a schema that requires a twice, around b
C6_Witness ==
    \E q \in DOMAIN objs :
        /\ prov[q].op = "omit"
        /\ prov[q].names = <<"a">>
        /\ ReqOf(prov[q].src) = <<"a", "b", "a">>
        /\ ReqOf(q) = <<"b">>
        /\ DOMAIN PropsOf(q) = {"b"}

----------------------------------------------------------------------------
(* C7: for distinct names a and b both present in S, S.pick(a, b).omit(b)   *)
(* shows the same document as S.pick(a).                                    *)

\* object q is S.pick(a, b).omit(b) with a # b both keys of S
IsPickOmit(q, S, a, b) ==
    /\ prov[q].op = "omit"
    /\ prov[q].names = <<b>>
    /\ prov[prov[q].src].op = "pick"
    /\ prov[prov[q].src].names = <<a, b>>
    /\ prov[prov[q].src].src = S
    /\ a # b
    /\ {a, b} \subseteq DOMAIN PropsOf(S)

\* the document of S.pick(a), were it called now
PickDoc(S, a) ==
    LET r == _pick(propObjs, reqArrs, objs[S], <<a>>)
    IN  Resolve(r.P, r.R, toJSONSchema(Append(objs, r.ret), r.ret))

C7_PickThenOmit ==
    \A q \in DOMAIN objs, S \in DOMAIN objs, a \in Names, b \in Names :
        IsPickOmit(q, S, a, b) =>
            /\ Doc(propObjs, reqArrs, objs, q) = PickDoc(S, a)
            /\ \A p \in DOMAIN objs :
                  (prov[p].op = "pick" /\ prov[p].src = S /\ prov[p].names = <<a>>)
                     => Doc(propObjs, reqArrs, objs, q) = Doc(propObjs, reqArrs, objs, p)

\* S.pick(a, b).omit(b) where S requires both names
C7_Witness ==
    \E q \in DOMAIN objs, S \in DOMAIN objs, a \in Names, b \in Names :
        /\ IsPickOmit(q, S, a, b)
        /\ {a, b} \subseteq NameSet(ReqOf(S))
        /\ ReqOf(q) # <<>>

----------------------------------------------------------------------------
(* C8: A.extend(B) has the union of A's and B's properties, with B's        *)
(* fragment for a name both define, and as `required` B's required sequence *)
(* followed by A's; A and B are unchanged by the call.  (A combinator B     *)
(* has neither properties nor required of its own.)                         *)

OtherProps(B) == IF IsAccumulator(B) THEN PropsOf(B) ELSE <<>>

OtherReq(B) == IF IsAccumulator(B) THEN ReqOf(B) ELSE <<>>

C8_Result ==
    \A e \in DOMAIN objs :
        prov[e].op = "extend" =>
            LET A == prov[e].src
                B == prov[e].other
            IN  /\ IsAccumulator(e)
                /\ DOMAIN PropsOf(e) = (DOMAIN PropsOf(A)) \cup (DOMAIN OtherProps(B))
                /\ \A n \in DOMAIN PropsOf(e) :
                      PropsOf(e)[n] =
                         IF n \in DOMAIN OtherProps(B) THEN OtherProps(B)[n] ELSE PropsOf(A)[n]
                /\ ReqOf(e) = OtherReq(B) \o ReqOf(A)

\* a step that is an extend call leaves both of its arguments as they were
C8_Frame ==
    \A e \in (DOMAIN objs') \ (DOMAIN objs) :
        prov'[e].op = "extend" =>
            \A x \in {prov'[e].src, prov'[e].other} :
                /\ objs'[x] = objs[x]
                /\ Doc(propObjs', reqArrs', objs', x) = Doc(propObjs, reqArrs, objs, x)

C8_Extend == [](C8_Result) /\ [][C8_Frame]_vars

\* A and B define the same name with different fragments and both require it
C8_Witness ==
    \E e \in DOMAIN objs :
        /\ prov[e].op = "extend"
        /\ IsAccumulator(prov[e].other)
        /\ \E n \in (DOMAIN PropsOf(prov[e].src)) \cap (DOMAIN PropsOf(prov[e].other)) :
              /\ PropsOf(prov[e].src)[n] # PropsOf(prov[e].other)[n]
              /\ n \in NameSet(ReqOf(prov[e].src))
              /\ n \in NameSet(ReqOf(prov[e].other))
              /\ Len(Restricted(ReqOf(e), {n}, TRUE)) >= 2

----------------------------------------------------------------------------
(* C9: combineSchema.oneOf([A1..An]).toJSONSchema() is {oneOf: [A1's        *)
(* document, ..., An's document]}, the branches in input order, and the     *)
(* combined object has no method but toJSONSchema.                          *)

C9_OneOf ==
    \A c \in DOMAIN objs :
        prov[c].op = "oneOf" =>
            LET list == prov[c].schemaList
            IN  /\ Doc(propObjs, reqArrs, objs, c) =
                      [oneOf |-> [k \in 1..Len(list) |-> Doc(propObjs, reqArrs, objs, list[k])]]
                /\ objs[c].methods = {"toJSONSchema"}
                /\ objs[c].methods \cap (FieldOps \cup {"pick", "omit", "extend"}) = {}

\* a combination of two schemas with different documents
C9_Witness ==
    \E c \in DOMAIN objs :
        /\ prov[c].op = "oneOf"
        /\ Len(prov[c].schemaList) = 2
        /\ Doc(propObjs, reqArrs, objs, c).oneOf[1] # Doc(propObjs, reqArrs, objs, c).oneOf[2]
        /\ Doc(propObjs, reqArrs, objs, c).oneOf[1].properties # <<>>

----------------------------------------------------------------------------
(* C10: validate calls the validator with throwError = false, assertValid   *)
(* with throwError = true, whatever the caller's options say, and every     *)
(* other option reaches the validator as the caller gave it.                *)

GivenOptions == IF call.given = Undefined THEN <<>> ELSE call.given

C10_ThrowErrorOverride ==
    call.fn \in {"validate", "assertValid"} =>
        /\ call.made.options.throwError = (call.fn = "assertValid")
        /\ DOMAIN call.made.options = (DOMAIN GivenOptions) \cup {"throwError"}
        /\ \A k \in (DOMAIN GivenOptions) \ {"throwError"} :
              call.made.options[k] = GivenOptions[k]

\* validate called with options that say throwError: true and another option
C10_Witness ==
    /\ call.fn = "validate"
    /\ call.given = [throwError |-> TRUE, nestedErrors |-> TRUE]
    /\ call.made.options = [throwError |-> FALSE, nestedErrors |-> TRUE]

----------------------------------------------------------------------------
(* C11: validate hands the input and schema.toJSONSchema() to the validator *)
(* and returns true exactly when the validator finds the input valid; on a  *)
(* failure it returns false and does not raise.  assertValid returns        *)
(* normally exactly when the input is valid; otherwise the error the        *)
(* validator raised reaches the caller as it is.                            *)

C11_ValidateAndAssert ==
    /\ call.fn \in {"validate", "assertValid"} =>
          call.made.schema = toJSONSchema(objs, objs[call.target])
    /\ call.fn = "validate" =>
          /\ ~call.made.outcome.raised
          /\ call.made.outcome.returned = call.verdict
    /\ call.fn = "assertValid" =>
          /\ call.made.outcome.raised = ~call.verdict
          /\ call.made.outcome.raised =>
                call.made.outcome = [raised |-> TRUE, error |-> "ValidationError"]
          /\ ~call.made.outcome.raised => DOMAIN call.made.outcome = {"raised"}

\* assertValid on an input the validator rejects, called with options that
\* say throwError: false
C11_Witness ==
    /\ call.fn = "assertValid"
    /\ ~call.verdict
    /\ call.given = [throwError |-> FALSE, nestedErrors |-> TRUE]
    /\ call.made.outcome.raised

----------------------------------------------------------------------------
(* C12 as claimed: for object(name, definitionOrSchema, objectOptions) the  *)
(* fragment is {type: 'object', ...(definitionOrSchema.toJSONSchema() when  *)
(* it has that method, the raw definition otherwise)}; it is stored as      *)
(* {oneOf: [fragment, {type: 'null'}]} exactly when definitionOrSchema      *)
(* itself carries nullable: true, whatever objectOptions.nullable says; and *)
(* the name is appended to `required` exactly when objectOptions.optional   *)
(* is not true.                                                             *)

\* what definitionOrSchema contributes: its document, or the raw definition
DefinitionContent(i) ==
    LET d == prov[i].definition
    IN  IF "obj" \in DOMAIN d THEN toJSONSchema(objs, objs[d.obj]) ELSE d

ClaimedObjectFragment(i) ==
    LET c == DefinitionContent(i)
    IN  [k \in {"type"} \cup DOMAIN c |-> IF k \in DOMAIN c THEN c[k] ELSE "object"]

\* definitionOrSchema itself carries nullable: true
DefinitionNullable(i) ==
    LET d == prov[i].definition
    IN  "nullable" \in DOMAIN d /\ d.nullable = TRUE

ObjectStoredAs(i, fragment) ==
    /\ StoredFragment(i) = IF DefinitionNullable(i)
                           THEN [oneOf |-> <<fragment, [type |-> "null"]>>]
                           ELSE fragment
    /\ ReqOf(i) = ReqOf(prov[i].src) \o
                      (IF CalledOptional(i) THEN <<>> ELSE <<prov[i].name>>)

C12_ObjectAsClaimed ==
    \A i \in DOMAIN objs :
        prov[i].op = "object" => ObjectStoredAs(i, ClaimedObjectFragment(i))

(* C12 amended: the fragment is {type: 'object', ...(the document or the    *)
(* raw definition), ...(objectOptions without optional and nullable)}: the  *)
(* other keys of objectOptions are copied in last.  Wrapping and `required` *)
(* are as claimed: wrapped exactly when definitionOrSchema itself carries   *)
(* nullable: true, never because of objectOptions.nullable; the name is     *)
(* appended to `required` exactly when objectOptions.optional is not true.  *)

ObjectFragment(i) ==
    LET c    == ClaimedObjectFragment(i)
        opts == PassedOptions(i)
    IN  [k \in (DOMAIN c) \cup (DOMAIN opts) |->
            IF k \in DOMAIN opts THEN opts[k] ELSE c[k]]

C12_Object ==
    \A i \in DOMAIN objs :
        prov[i].op = "object" => ObjectStoredAs(i, ObjectFragment(i))

\* an object field given an accumulator as definition and objectOptions
\* saying nullable: true, stored unwrapped
C12_Witness ==
    \E i \in DOMAIN objs :
        /\ prov[i].op = "object"
        /\ "obj" \in DOMAIN prov[i].definition
        /\ CalledNullable(i)
        /\ "oneOf" \notin DOMAIN StoredFragment(i)
        /\ StoredFragment(i).type = "object"

----------------------------------------------------------------------------
(* C13: no field-builder, pick or omit call raises for malformed usage:     *)
(* each returns an accumulator.  Adding a field under a name that is        *)
(* already a property replaces that name's fragment with the new one (last  *)
(* write wins) and keeps every other field; pick of a name absent from      *)
(* properties gives an accumulator that has the name as a key with an       *)
(* undefined fragment and not in `required`; omit of absent names gives the *)
(* same properties and required as the source.                              *)

\* the fragment the field call that returned i stores under its name
FragmentOfCall(i) ==
    LET F       == IF prov[i].op = "object" THEN ObjectFragment(i) ELSE ExpectedF(i)
        wrapped == IF prov[i].op = "object" THEN DefinitionNullable(i)
                   ELSE prov[i].op \in WrappedOps /\ CalledNullable(i)
    IN  IF wrapped THEN [oneOf |-> <<F, [type |-> "null"]>>] ELSE F

C13_MalformedUsage ==
    \A q \in DOMAIN objs :
        LET S == prov[q].src
        IN  /\ prov[q].op \in FieldOps \cup {"pick", "omit"} => IsAccumulator(q)
            /\ (prov[q].op \in FieldOps /\ prov[q].name \in DOMAIN PropsOf(S)) =>
                  /\ DOMAIN PropsOf(q) = DOMAIN PropsOf(S)
                  /\ PropsOf(q)[prov[q].name] = FragmentOfCall(q)
                  /\ \A n \in DOMAIN PropsOf(S) \ {prov[q].name} :
                        PropsOf(q)[n] = PropsOf(S)[n]
            /\ prov[q].op = "pick" =>
                  \A n \in NameSet(prov[q].names) \ DOMAIN PropsOf(S) :
                      /\ n \in DOMAIN PropsOf(q)
                      /\ PropsOf(q)[n] = Undefined
                      /\ n \notin NameSet(ReqOf(q))
            /\ (prov[q].op = "omit" /\ NameSet(prov[q].names) \cap DOMAIN PropsOf(S) = {}) =>
                  /\ PropsOf(q) = PropsOf(S)
                  /\ ReqOf(q) = ReqOf(S)

----------------------------------------------------------------------------
(* C14: in every accumulator reachable from defineSchema() by field         *)
(* builder, pick, omit, identical and extend calls (extend given a          *)
(* reachable accumulator or a oneOf combinator), every name in `required`   *)
(* is a key of `properties`.                                                *)

----------------------------------------------------------------------------
(* C15: the document toJSONSchema() returns shares no mutable state with    *)
(* the accumulator.  Whatever the caller does to a returned document        *)
(* (assigning a top-level key, adding or deleting a key of its `properties` *)
(* map, appending to its `required` list), a later toJSONSchema() on the    *)
(* same accumulator shows the content the document had when it was          *)
(* returned, and an accumulator derived from it afterwards shows that       *)
(* content with the new field added.                                        *)

C15_NoSharedState ==
    \A d \in DOMAIN docs :
        LET S == docs[d].of
            c == docs[d].content
        IN  /\ Doc(propObjs, reqArrs, objs, S) = c
            /\ \A n \in DOMAIN objs :
                  (n > docs[d].at /\ prov[n].op = "string" /\ prov[n].src = S) =>
                      LET D == Doc(propObjs, reqArrs, objs, n)
                      IN  /\ D.properties =
                                Spread(c.properties, prov[n].name :> FragmentOfCall(n))
                          /\ D.required = c.required \o
                                (IF CalledOptional(n) THEN <<>> ELSE <<prov[n].name>>)

====
